---- MODULE Spec2Model ----
(***************************************************************************)
(* Model of src/try_it_out.cpp: the straight-line main() that builds one   *)
(* live instance of each pointer, string and container construct.          *)
(*                                                                         *)
(* One action per statement of main().  The build flag WITH_LLVM is a      *)
(* choice made before the program starts.  Heap addresses returned by the  *)
(* allocator and the bytes found in a default-initialised std::array are   *)
(* nondeterministic.                                                       *)
(***************************************************************************)
EXTENDS Integers, Sequences, FiniteSets, TLC

VARIABLES pc, frame, live, heap, withLLVM, exitStatus

vars == <<pc, frame, live, heap, withLLVM, exitStatus>>

(* ---- bounds ---- *)
HeapSize == 3
GarbageMax == 4

HeapAddrs == 1..HeapSize
Garbage == 0..GarbageMax

(* ---- program text ---- *)
Entry == 22
ReturnLine == 86
Exited == 87

AllStmts ==
  << 22, 23, 24, 25, 28, 29, 32, 33, 35, 39, 40, 43, 44, 47, 48, 52,
     59, 60, 61, 65, 66, 67, 68, 70, 71, 72, 73, 75, 76, 77, 78,
     81, 82, 83, 84, 86 >>

LLVMLines == {35, 47, 48, 59, 60, 61}

Stmts(llvm) == SelectSeq(AllStmts, LAMBDA l : llvm \/ l \notin LLVMLines)

Succ(line) ==
  LET s == Stmts(withLLVM)
      i == CHOOSE j \in 1..Len(s) : s[j] = line
  IN  IF i = Len(s) THEN Exited ELSE s[i + 1]

(* ---- values ---- *)
Null == [region |-> "null"]
StackAddr(v) == [region |-> "stack", var |-> v]
HeapAddr(a) == [region |-> "heap", addr |-> a]
FreeCell == [used |-> FALSE, val |-> "", owners |-> {}]

(* character codes of the map keys, for std::less<std::string> *)
CharCodes ==
  [ One   |-> <<79, 110, 101>>,
    Two   |-> <<84, 119, 111>>,
    Three |-> <<84, 104, 114, 101, 101>> ]

RECURSIVE LexLess(_, _)
LexLess(a, b) ==
  IF b = <<>> THEN FALSE
  ELSE IF a = <<>> THEN TRUE
  ELSE IF Head(a) < Head(b) THEN TRUE
  ELSE IF Head(b) < Head(a) THEN FALSE
  ELSE LexLess(Tail(a), Tail(b))

StrLess(a, b) == LexLess(CharCodes[a], CharCodes[b])

(* std::map<std::string,int>::insert: unique keys, kept in key order *)
RECURSIVE MapInsertUnordered(_, _, _)
MapInsertUnordered(m, k, v) ==
  IF m = <<>> THEN << <<k, v>> >>
  ELSE IF Head(m)[1] = k THEN m
  ELSE <<Head(m)>> \o MapInsertUnordered(Tail(m), k, v)

RECURSIVE MapInsert(_, _, _)
MapInsert(m, k, v) ==
  IF m = <<>> THEN << <<k, v>> >>
  ELSE IF StrLess(k, Head(m)[1]) THEN << <<k, v>> >> \o m
  ELSE IF StrLess(Head(m)[1], k) THEN <<Head(m)>> \o MapInsert(Tail(m), k, v)
  ELSE m

(* std::map(initializer_list): inserts the pairs in list order *)
RECURSIVE MapFromList(_, _)
MapFromList(m, l) ==
  IF l = <<>> THEN m
  ELSE MapFromList(MapInsert(m, Head(l)[1], Head(l)[2]), Tail(l))

(* llvm::StringMap::insert: hash map, no iteration order *)
StringMapInsert(m, k, v) ==
  IF \E p \in m : p[1] = k THEN m ELSE m \cup {<<k, v>>}

(* std::deque / std::list push_back *)
PushFront(c, v) == <<v>> \o c

PushBack(c, v) == Append(c, v)

(* std::queue::push and std::stack::push delegate to c.push_back *)
QueuePushFront(q, v) == PushFront(q, v)

QueuePush(q, v) == PushBack(q, v)

StackPush(s, v) == PushBack(s, v)

QueueFront(q) == q[1]

QueueBack(q) == q[Len(q)]

StackTop(s) == s[Len(s)]

(* dereference of a raw or smart pointer value *)
Deref(p) ==
  IF p.region = "stack" THEN frame[p.var] ELSE heap[p.addr].val

(* a pointer variable owns its pointee iff it is a registered owner of a heap cell *)
Owns(v) ==
  /\ frame[v].region = "heap"
  /\ heap[frame[v].addr].used
  /\ v \in heap[frame[v].addr].owners

(* ---- initial state: main() entered, no statement executed ---- *)
InitFrame ==
  [ basic_int |-> 0, basic_double |-> <<0, 1>>,
    int_ptr |-> Null, double_ptr |-> Null,
    unique_str_ptr |-> Null, shared_int_ptr |-> Null,
    str |-> "", str_view |-> [data |-> "", size |-> 0],
    llvm_str_ref |-> [data |-> "", size |-> 0],
    char_array |-> <<>>, int_array |-> <<>>,
    vec |-> <<>>, arr |-> <<>>,
    llvm_small_vec |-> <<>>, llvm_array_ref |-> [data |-> Null, size |-> 0],
    str_int_map |-> <<>>, llvm_str_int_map |-> {},
    int_queue |-> <<>>, int_deque |-> <<>>, int_list |-> <<>>,
    int_stack |-> <<>> ]

Init ==
  /\ pc = Entry
  /\ frame = InitFrame
  /\ live = {}
  /\ heap = [a \in HeapAddrs |-> FreeCell]
  /\ withLLVM \in BOOLEAN
  /\ exitStatus = <<>>

(* a statement that defines or updates one local and touches nothing else *)
Assign(line, name, value) ==
  /\ pc = line
  /\ frame' = [frame EXCEPT ![name] = value]
  /\ live' = live \cup {name}
  /\ pc' = Succ(line)
  /\ UNCHANGED <<heap, withLLVM, exitStatus>>

(* operator new: any free cell *)
Alloc(line, name, value) ==
  /\ pc = line
  /\ \E a \in HeapAddrs :
       /\ ~heap[a].used
       /\ heap' = [heap EXCEPT ![a] = [used |-> TRUE, val |-> value, owners |-> {name}]]
       /\ frame' = [frame EXCEPT ![name] = HeapAddr(a)]
  /\ live' = live \cup {name}
  /\ pc' = Succ(line)
  /\ UNCHANGED <<withLLVM, exitStatus>>

(* ---- statements of main() ---- *)
L22_basic_int == Assign(22, "basic_int", 42)

L23_basic_double == Assign(23, "basic_double", <<85, 2>>)

L24_int_ptr == Assign(24, "int_ptr", StackAddr("basic_int"))

L25_double_ptr == Assign(25, "double_ptr", StackAddr("basic_double"))

L28_unique_str_ptr == Alloc(28, "unique_str_ptr", "UniqueStr")

L29_shared_int_ptr == Alloc(29, "shared_int_ptr", 42)

L32_str == Assign(32, "str", "Hello, GDB!")

L33_str_view == Assign(33, "str_view", [data |-> "Hello, StringView!", size |-> 18])

L35_llvm_str_ref ==
  withLLVM /\ Assign(35, "llvm_str_ref", [data |-> "Hello, LLVM!", size |-> 12])

L39_char_array == Assign(39, "char_array", <<71, 68, 66, 43, 43, 0>>)

L40_int_array == Assign(40, "int_array", <<1, 2, 3>>)

L43_vec == Assign(43, "vec", <<"A", "B", "C">>)

(* default-initialised std::array<int, 3>: elements are indeterminate *)
L44_arr == \E g \in [1..3 -> Garbage] : Assign(44, "arr", g)

L47_llvm_small_vec == withLLVM /\ Assign(47, "llvm_small_vec", <<7, 8, 9>>)

L48_llvm_array_ref ==
  withLLVM /\ Assign(48, "llvm_array_ref", [data |-> StackAddr("int_array"), size |-> 3])

L52_str_int_map ==
  Assign(52, "str_int_map",
         MapFromList(<<>>, << <<"One", 1>>, <<"Two", 2>>, <<"Three", 3>> >>))

L59_llvm_str_int_map == withLLVM /\ Assign(59, "llvm_str_int_map", {})

L60_llvm_insert_four ==
  withLLVM /\ Assign(60, "llvm_str_int_map",
                     StringMapInsert(frame.llvm_str_int_map, "Four", 4))

L61_llvm_insert_five ==
  withLLVM /\ Assign(61, "llvm_str_int_map",
                     StringMapInsert(frame.llvm_str_int_map, "Five", 5))

L65_int_queue == Assign(65, "int_queue", <<>>)

L66_queue_push == Assign(66, "int_queue", QueuePush(frame.int_queue, 1))

L67_queue_push == Assign(67, "int_queue", QueuePush(frame.int_queue, 2))

L68_queue_push == Assign(68, "int_queue", QueuePush(frame.int_queue, 3))

L70_int_deque == Assign(70, "int_deque", <<>>)

L71_deque_push_back == Assign(71, "int_deque", PushBack(frame.int_deque, 1))

L72_deque_push_back == Assign(72, "int_deque", PushBack(frame.int_deque, 2))

L73_deque_push_back == Assign(73, "int_deque", PushBack(frame.int_deque, 3))

L75_int_list == Assign(75, "int_list", <<>>)

L76_list_push_back == Assign(76, "int_list", PushBack(frame.int_list, 1))

L77_list_push_back == Assign(77, "int_list", PushBack(frame.int_list, 2))

L78_list_push_back == Assign(78, "int_list", PushBack(frame.int_list, 3))

L81_int_stack == Assign(81, "int_stack", <<>>)

L82_stack_push == Assign(82, "int_stack", StackPush(frame.int_stack, 1))

L83_stack_push == Assign(83, "int_stack", StackPush(frame.int_stack, 2))

L84_stack_push == Assign(84, "int_stack", StackPush(frame.int_stack, 3))

(* return 0: locals are destroyed, the smart pointers release their cells *)
L86_return ==
  /\ pc = ReturnLine
  /\ exitStatus' = <<0>>
  /\ heap' = [a \in HeapAddrs |-> FreeCell]
  /\ live' = {}
  /\ pc' = Succ(ReturnLine)
  /\ UNCHANGED <<frame, withLLVM>>

Next ==
  \/ L22_basic_int \/ L23_basic_double \/ L24_int_ptr \/ L25_double_ptr
  \/ L28_unique_str_ptr \/ L29_shared_int_ptr
  \/ L32_str \/ L33_str_view \/ L35_llvm_str_ref
  \/ L39_char_array \/ L40_int_array
  \/ L43_vec \/ L44_arr
  \/ L47_llvm_small_vec \/ L48_llvm_array_ref
  \/ L52_str_int_map
  \/ L59_llvm_str_int_map \/ L60_llvm_insert_four \/ L61_llvm_insert_five
  \/ L65_int_queue \/ L66_queue_push \/ L67_queue_push \/ L68_queue_push
  \/ L70_int_deque \/ L71_deque_push_back \/ L72_deque_push_back
  \/ L73_deque_push_back
  \/ L75_int_list \/ L76_list_push_back \/ L77_list_push_back
  \/ L78_list_push_back
  \/ L81_int_stack \/ L82_stack_push \/ L83_stack_push \/ L84_stack_push
  \/ L86_return

Spec == Init /\ [][Next]_vars

(* main() is the only thread and every statement completes *)
LiveSpec == Spec /\ WF_vars(Next)

TypeOK ==
  /\ pc \in {AllStmts[i] : i \in 1..Len(AllStmts)} \cup {Exited}
  /\ withLLVM \in BOOLEAN
  /\ live \subseteq DOMAIN InitFrame
  /\ exitStatus \in {<<>>, <<0>>}

(* ---- what an inspector stopped in main() reads from the frame ---- *)
(* declared types of the inspected locals *)
DeclType ==
  [ int_ptr |-> "int*",
    unique_str_ptr |-> "std::unique_ptr<std::string>",
    shared_int_ptr |-> "std::shared_ptr<int>",
    vec |-> "std::vector<std::string>",
    str_int_map |-> "std::map<std::string, int>" ]

(* shape of a declared type: smart pointers own, a raw pointer does not *)
ShapeOf(type) ==
  CASE type \in {"std::unique_ptr<std::string>", "std::shared_ptr<int>"} -> "owning pointer"
    [] type = "int*" -> "pointer"
    [] type = "std::vector<std::string>" -> "sequence"
    [] type = "std::map<std::string, int>" -> "ordered mapping"

(* rendered value: pointers show the pointee, containers their elements in *)
(* iteration order                                                         *)
Render(v) ==
  IF ShapeOf(DeclType[v]) \in {"owning pointer", "pointer"}
  THEN <<"*", v, "=", Deref(frame[v])>>
  ELSE frame[v]

Golden ==
  [ int_ptr |-> <<"*", "int_ptr", "=", 42>>,
    vec |-> <<"A", "B", "C">>,
    str_int_map |-> << <<"One", 1>>, <<"Three", 3>>, <<"Two", 2>> >> ]

Verdict(v) == IF Render(v) = Golden[v] THEN "Pass" ELSE "Fail"

(* every initialiser of the three inspected variables has run and main() *)
(* has not returned                                                      *)
AfterInitialisers ==
  /\ {"basic_int", "int_ptr", "vec", "str_int_map"} \subseteq live
  /\ pc # Exited

AllPass == \A v \in {"int_ptr", "vec", "str_int_map"} : Verdict(v) = "Pass"

AtReturnState ==
  /\ frame.int_queue = <<1, 2, 3>>
  /\ QueueFront(frame.int_queue) = 1
  /\ QueueBack(frame.int_queue) = 3
  /\ frame.int_deque = <<1, 2, 3>>
  /\ frame.int_list = <<1, 2, 3>>
  /\ frame.int_stack = <<1, 2, 3>>
  /\ StackTop(frame.int_stack) = 3
  /\ frame.int_array = <<1, 2, 3>>
  /\ frame.int_ptr = StackAddr("basic_int")
  /\ Deref(frame.int_ptr) = 42
  /\ frame.double_ptr = StackAddr("basic_double")
  /\ Deref(frame.double_ptr) = <<85, 2>>

EarlyVars == {"basic_int", "basic_double", "int_ptr", "double_ptr"}

NoLaterWrite ==
  EarlyVars \subseteq live => \A v \in EarlyVars : frame'[v] = frame[v]

C10_MainAtReturn ==
  /\ [](pc = ReturnLine => AtReturnState)
  /\ [][NoLaterWrite]_vars
  /\ [][pc' = Succ(pc)]_vars
  /\ [](pc = Exited => exitStatus = <<0>>)
  /\ <>(pc = Exited /\ exitStatus = <<0>>)

C10_Witness == pc = Exited /\ exitStatus = <<0>> /\ frame.int_stack = <<1, 2, 3>>

====
